---- MODULE Spec2Model ----
(***************************************************************************)
(* A model of colmena's src/util.rs:                                       *)
(*   - CommandExecution (new / get_logs / run) together with               *)
(*     capture_stream, the child process and its two pipes;                *)
(*   - filter_nodes, the node selector;                                    *)
(*   - hive_from_args, the configuration locator.                          *)
(* Text is a sequence of one-character strings.                            *)
(***************************************************************************)
EXTENDS Naturals, Sequences, FiniteSets, TLC

VARIABLES
    pc,       \* CommandExecution: "new" (constructed), "running" (inside run(), at futures.await), "returned"
    stdout,   \* self.stdout : Option<String>, <<>> is None and <<s>> is Some(s)
    stderr,   \* self.stderr : Option<String>
    result,   \* what the last run() returned
    child,    \* the spawned process: "none", "alive" or "exited"
    status,   \* Option<ExitStatus> of the child
    written,  \* per stream, what the child has written during the current invocation
    pipe,     \* per stream, bytes written and not yet read (OS pipe and BufReader buffer)
    closed,   \* per stream, whether the write end is closed
    line,     \* per stream, the bytes read_line has taken for the line in progress
    log,      \* per stream, capture_stream's local `log`
    drained,  \* per stream, whether capture_stream has returned
    waited,   \* Option of the output of child.wait()
    sink,     \* the lines TaskProgress::log received during the current invocation, tagged by stream
    runs,     \* how many times run() has been invoked on the instance
    nodes,    \* filter_nodes: the registry, a function NodeName -> set of tags
    filter,   \* filter_nodes: the selector string
    fpc,      \* filter_nodes: "call" before the call, "done" after it
    fout,     \* filter_nodes: the outcome of the call
    ftested,  \* filter_nodes: the nodes the filter_map closure was run on
    hin,      \* hive_from_args: the arguments and the environment of the call
    hpc,      \* hive_from_args: "start", "search" (in the loop), "load" (at HivePath::from_path), "done"
    hcur,     \* hive_from_args: `cur`, a directory as its depth below the root (0 is the root)
    checked,  \* hive_from_args: the directories the loop has looked into, in order
    file_path,\* hive_from_args: `file_path`, Option of <<directory, file name>>
    fpath,    \* hive_from_args: `fpath`, the normalized --config argument
    hout      \* hive_from_args: the outcome of the call

engineVars == <<pc, stdout, stderr, result, child, status, written, pipe, closed,
                line, log, drained, waited, sink, runs>>
filterVars == <<nodes, filter, fpc, fout, ftested>>
hiveVars == <<hin, hpc, hcur, checked, file_path, fpath, hout>>
vars == <<pc, stdout, stderr, result, child, status, written, pipe, closed,
          line, log, drained, waited, sink, runs, nodes, filter, fpc, fout, ftested,
          hin, hpc, hcur, checked, file_path, fpath, hout>>

----------------------------------------------------------------------------
(* Bounds of the model *)

\* the most characters the child writes on one stream in one invocation
MaxLen == 2
\* the capacity of one pipe, in characters
PipeCap == 1
\* the most invocations of run() on one CommandExecution
MaxRuns == 2
\* the most characters of a selector string
MaxSel == 3
\* the most directories between the current working directory and the root
MaxDepth == 2
\* the most characters of a --config argument
MaxArg == 2

----------------------------------------------------------------------------
(* Text *)

NL == "\n"
\* the characters the child's output is made of: a letter, a blank, a line
\* feed. The output is valid UTF-8 and the pipes read without error, so the
\* unwrap() on read_line never panics.
Chars == {"a", " ", NL}
\* char::is_whitespace, on Chars
IsWhitespace(c) == c \in {" ", NL}

None == <<>>
Some(x) == <<x>>

Streams == {"out", "err"}

\* mutant of trim_end: only line feeds are dropped (trim_end_matches('\n'))
RECURSIVE trim_end_newline_only(_)
trim_end_newline_only(s) ==
    IF s = <<>> THEN s
    ELSE IF s[Len(s)] = NL THEN trim_end_newline_only(SubSeq(s, 1, Len(s) - 1))
    ELSE s

\* str::trim_end: drop every trailing whitespace character
RECURSIVE trim_end(_)
trim_end(s) ==
    IF s = <<>> THEN s
    ELSE IF IsWhitespace(s[Len(s)]) THEN trim_end(SubSeq(s, 1, Len(s) - 1))
    ELSE s

----------------------------------------------------------------------------
(* ExitStatus and NixResult *)

\* the wait statuses a child can end with: exit codes 0 and 1, killed by signal 9
Exited(n) == <<"exited", n>>
Signaled(n) == <<"signaled", n>>
Statuses == {Exited(0), Exited(1), Signaled(9)}

\* mutant of success: every normal exit counts, whatever its code
success_any_exit(st) == st[1] = "exited"

\* ExitStatus::success
success(st) == st = Exited(0)

Pending == [kind |-> "Pending", status |-> None]
Ok == [kind |-> "Ok", status |-> None]
\* NixError from std::io::Error (the `?` on spawn and on wait)
IoError(what) == [kind |-> "IoError:" \o what, status |-> None]
\* NixError from ExitStatus (exit.into())
ExitError(st) == [kind |-> "ExitError", status |-> Some(st)]

----------------------------------------------------------------------------
(* CommandExecution *)

\* the per-invocation state before a child exists
NoStream == [s \in Streams |-> <<>>]
AllFalse == [s \in Streams |-> FALSE]
AllTrue == [s \in Streams |-> TRUE]

\* the filter_nodes variables while the engine runs
FilterIdle ==
    /\ nodes = <<>>
    /\ filter = <<>>
    /\ fpc = "idle"
    /\ fout = [kind |-> "none", list |-> <<>>]
    /\ ftested = {}

\* no result of hive_from_args yet
NoHive == [kind |-> "none", via |-> "none", path |-> <<>>, file |-> None, trace |-> FALSE]

\* the hive_from_args variables while the engine or filter_nodes runs
HiveIdle ==
    /\ hin = <<>>
    /\ hpc = "idle"
    /\ hcur = 0
    /\ checked = <<>>
    /\ file_path = None
    /\ fpath = <<>>
    /\ hout = NoHive

\* CommandExecution::new
new ==
    /\ pc = "new"
    /\ stdout = None
    /\ stderr = None
    /\ result = Pending
    /\ child = "none"
    /\ status = None
    /\ written = NoStream
    /\ pipe = NoStream
    /\ closed = AllFalse
    /\ line = NoStream
    /\ log = NoStream
    /\ drained = AllFalse
    /\ waited = None
    /\ sink = <<>>
    /\ runs = 0

\* CommandExecution::get_logs
get_logs == <<stdout, stderr>>

\* mutant of run_spawn: the spawn error is not propagated, run() goes on to the join
run_spawn_unchecked(spawned) ==
    /\ pc \in {"new", "returned"}
    /\ runs < MaxRuns
    /\ runs' = runs + 1
    /\ stdout' = Some(<<>>)
    /\ stderr' = Some(<<>>)
    /\ written' = NoStream
    /\ pipe' = NoStream
    /\ closed' = AllFalse
    /\ line' = NoStream
    /\ log' = NoStream
    /\ drained' = AllFalse
    /\ waited' = None
    /\ status' = None
    /\ sink' = <<>>
    /\ pc' = "running"
    /\ child' = IF spawned THEN "alive" ELSE "none"
    /\ result' = Pending
    /\ UNCHANGED filterVars
    /\ UNCHANGED hiveVars

\* mutant of run_spawn: the buffers are not reset on entry
run_spawn_keep_logs(spawned) ==
    /\ pc \in {"new", "returned"}
    /\ runs < MaxRuns
    /\ runs' = runs + 1
    /\ UNCHANGED <<stdout, stderr>>
    /\ written' = NoStream
    /\ pipe' = NoStream
    /\ closed' = AllFalse
    /\ line' = NoStream
    /\ log' = NoStream
    /\ drained' = AllFalse
    /\ waited' = None
    /\ status' = None
    /\ sink' = <<>>
    /\ IF spawned
       THEN /\ pc' = "running"
            /\ child' = "alive"
            /\ result' = Pending
       ELSE /\ pc' = "returned"
            /\ child' = "none"
            /\ result' = IoError("spawn")
    /\ UNCHANGED filterVars
    /\ UNCHANGED hiveVars

\* run(), from its entry to the first suspension at futures.await: the buffers
\* are set to Some(""), then the command is spawned. A failed spawn returns the
\* io error at once (the `?`); a successful one leaves the three futures of
\* join3 pending. run() takes &mut self, so it starts only when no run is
\* in progress, and it can be called again after it returned.
run_spawn(spawned) ==
    /\ pc \in {"new", "returned"}
    /\ runs < MaxRuns
    /\ runs' = runs + 1
    /\ stdout' = Some(<<>>)
    /\ stderr' = Some(<<>>)
    /\ written' = NoStream
    /\ pipe' = NoStream
    /\ closed' = AllFalse
    /\ line' = NoStream
    /\ log' = NoStream
    /\ drained' = AllFalse
    /\ waited' = None
    /\ status' = None
    /\ sink' = <<>>
    /\ IF spawned
       THEN /\ pc' = "running"
            /\ child' = "alive"
            /\ result' = Pending
       ELSE /\ pc' = "returned"
            /\ child' = "none"
            /\ result' = IoError("spawn")
    /\ UNCHANGED filterVars
    /\ UNCHANGED hiveVars

\* The child writes one character to a stream; a full pipe blocks the write.
child_write(s, c) ==
    /\ child = "alive"
    /\ ~closed[s]
    /\ Len(written[s]) < MaxLen
    /\ Len(pipe[s]) < PipeCap
    /\ written' = [written EXCEPT ![s] = Append(@, c)]
    /\ pipe' = [pipe EXCEPT ![s] = Append(@, c)]
    /\ UNCHANGED <<pc, stdout, stderr, result, child, status, closed, line, log,
                   drained, waited, sink, runs>>
    /\ UNCHANGED filterVars
    /\ UNCHANGED hiveVars

\* The child closes one of its output streams while it keeps running.
child_close(s) ==
    /\ child = "alive"
    /\ ~closed[s]
    /\ closed' = [closed EXCEPT ![s] = TRUE]
    /\ UNCHANGED <<pc, stdout, stderr, result, child, status, written, pipe, line,
                   log, drained, waited, sink, runs>>
    /\ UNCHANGED filterVars
    /\ UNCHANGED hiveVars

\* The child terminates (exits or is killed): its write ends are closed, what
\* it wrote stays in the pipes.
child_exit(st) ==
    /\ child = "alive"
    /\ child' = "exited"
    /\ status' = Some(st)
    /\ closed' = AllTrue
    /\ UNCHANGED <<pc, stdout, stderr, result, written, pipe, line, log, drained,
                   waited, sink, runs>>
    /\ UNCHANGED filterVars
    /\ UNCHANGED hiveVars

\* capture_stream, once read_line has returned a line (len > 0): the line is
\* trimmed, logged to the progress bar and appended to `log` with a "\n".
capture_line(s, text) ==
    LET trimmed == trim_end(text) IN
    /\ sink' = Append(sink, <<s, trimmed>>)
    /\ log' = [log EXCEPT ![s] = @ \o trimmed \o <<NL>>]

\* mutant of read_char: stderr is read only once stdout is drained
read_char_stdout_first(s) ==
    /\ pc = "running"
    /\ ~drained[s]
    /\ s = "err" => drained["out"]
    /\ pipe[s] # <<>>
    /\ pipe' = [pipe EXCEPT ![s] = Tail(@)]
    /\ LET c == Head(pipe[s]) IN
       IF c = NL
       THEN /\ capture_line(s, Append(line[s], c))
            /\ line' = [line EXCEPT ![s] = <<>>]
            /\ UNCHANGED drained
       ELSE /\ line' = [line EXCEPT ![s] = Append(@, c)]
            /\ UNCHANGED <<sink, log, drained>>
    /\ UNCHANGED <<pc, stdout, stderr, result, child, status, written, closed, waited, runs>>
    /\ UNCHANGED filterVars
    /\ UNCHANGED hiveVars

\* read_line takes the next character of the stream; a line feed completes
\* the line, which capture_stream then handles.
read_char(s) ==
    /\ pc = "running"
    /\ ~drained[s]
    /\ pipe[s] # <<>>
    /\ pipe' = [pipe EXCEPT ![s] = Tail(@)]
    /\ LET c == Head(pipe[s]) IN
       IF c = NL
       THEN /\ capture_line(s, Append(line[s], c))
            /\ line' = [line EXCEPT ![s] = <<>>]
            /\ UNCHANGED drained
       ELSE /\ line' = [line EXCEPT ![s] = Append(@, c)]
            /\ UNCHANGED <<sink, log, drained>>
    /\ UNCHANGED <<pc, stdout, stderr, result, child, status, written, closed, waited, runs>>
    /\ UNCHANGED filterVars
    /\ UNCHANGED hiveVars

\* mutant of read_eof: end-of-data ends the loop at once, an unterminated last
\* line is lost
read_eof_drop_partial(s) ==
    /\ pc = "running"
    /\ ~drained[s]
    /\ pipe[s] = <<>>
    /\ closed[s]
    /\ drained' = [drained EXCEPT ![s] = TRUE]
    /\ line' = [line EXCEPT ![s] = <<>>]
    /\ UNCHANGED <<sink, log>>
    /\ UNCHANGED <<pc, stdout, stderr, result, child, status, written, pipe, closed, waited, runs>>
    /\ UNCHANGED filterVars
    /\ UNCHANGED hiveVars

\* read_line at end-of-data: with bytes of an unterminated line taken, it
\* returns them (len > 0) and the loop goes on; with none it returns 0 and
\* capture_stream breaks out of the loop and returns `log`.
read_eof(s) ==
    /\ pc = "running"
    /\ ~drained[s]
    /\ pipe[s] = <<>>
    /\ closed[s]
    /\ IF line[s] # <<>>
       THEN /\ capture_line(s, line[s])
            /\ line' = [line EXCEPT ![s] = <<>>]
            /\ UNCHANGED drained
       ELSE /\ drained' = [drained EXCEPT ![s] = TRUE]
            /\ UNCHANGED <<sink, log, line>>
    /\ UNCHANGED <<pc, stdout, stderr, result, child, status, written, pipe, closed, waited, runs>>
    /\ UNCHANGED filterVars
    /\ UNCHANGED hiveVars

\* child.wait() completes once the child has terminated: with its exit
\* status, or with an io error.
child_wait(ok) ==
    /\ pc = "running"
    /\ child = "exited"
    /\ waited = None
    /\ waited' = Some(IF ok THEN [ok |-> TRUE, status |-> status]
                            ELSE [ok |-> FALSE, status |-> None])
    /\ UNCHANGED <<pc, stdout, stderr, result, child, status, written, pipe, closed,
                   line, log, drained, sink, runs>>
    /\ UNCHANGED filterVars
    /\ UNCHANGED hiveVars

\* what run() returns after the join: `wait?`, then exit.success()
run_result(w) ==
    IF ~w.ok THEN IoError("wait")
    ELSE IF success(w.status[1]) THEN Ok
    ELSE ExitError(w.status[1])

\* mutant of join3_ready: a race, ready as soon as the wait is
select_ready == waited # None

\* join3 is ready when its three futures are
join3_ready == drained["out"] /\ drained["err"] /\ waited # None

\* mutant of run_join: a failure is returned before the logs are stored
run_join_return_first ==
    /\ pc = "running"
    /\ join3_ready
    /\ result' = run_result(waited[1])
    /\ IF result' = Ok
       THEN /\ stdout' = Some(log["out"])
            /\ stderr' = Some(log["err"])
       ELSE UNCHANGED <<stdout, stderr>>
    /\ pc' = "returned"
    /\ UNCHANGED <<child, status, written, pipe, closed, line, log, drained, waited, sink, runs>>
    /\ UNCHANGED filterVars
    /\ UNCHANGED hiveVars

\* run(), from futures.await to its return: the two logs are stored on the
\* engine, then the result is formed.
run_join ==
    /\ pc = "running"
    /\ join3_ready
    /\ stdout' = Some(log["out"])
    /\ stderr' = Some(log["err"])
    /\ result' = run_result(waited[1])
    /\ pc' = "returned"
    /\ UNCHANGED <<child, status, written, pipe, closed, line, log, drained, waited, sink, runs>>
    /\ UNCHANGED filterVars
    /\ UNCHANGED hiveVars

Init == new /\ FilterIdle /\ HiveIdle

Next ==
    \/ \E spawned \in BOOLEAN : run_spawn(spawned)
    \/ \E s \in Streams, c \in Chars : child_write(s, c)
    \/ \E s \in Streams : child_close(s)
    \/ \E st \in Statuses : child_exit(st)
    \/ \E s \in Streams : read_char(s)
    \/ \E s \in Streams : read_eof(s)
    \/ \E ok \in BOOLEAN : child_wait(ok)
    \/ run_join

Spec == Init /\ [][Next]_vars

\* A child that runs to completion: it exits once, on each stream, it has
\* written MaxLen characters or closed the stream; until then a full pipe
\* holds it back.
child_exit_finished(st) ==
    /\ \A s \in Streams : closed[s] \/ Len(written[s]) = MaxLen
    /\ child_exit(st)

\* For progress only whether a character ends a line matters: the child of
\* the liveness specification writes letters and line feeds.
LiveChars == {"a", NL}

\* a step of that child that takes it towards its exit
child_progress ==
    \/ \E s \in Streams, c \in LiveChars : child_write(s, c)
    \/ \E st \in Statuses : child_exit_finished(st)

\* one invocation of run() on a new CommandExecution
NextLive ==
    \/ \E spawned \in BOOLEAN : pc = "new" /\ run_spawn(spawned)
    \/ \E s \in Streams, c \in LiveChars : child_write(s, c)
    \/ \E s \in Streams : child_close(s)
    \/ \E st \in Statuses : child_exit_finished(st)
    \/ \E s \in Streams : read_char(s)
    \/ \E s \in Streams : read_eof(s)
    \/ \E ok \in BOOLEAN : child_wait(ok)
    \/ run_join

\* The three futures of join3 are each polled whenever they can proceed, the
\* join returns when it is ready, and the child proceeds whenever a write or
\* its exit is possible.
Fairness ==
    /\ \A s \in Streams : WF_vars(read_char(s)) /\ WF_vars(read_eof(s))
    /\ WF_vars(\E ok \in BOOLEAN : child_wait(ok))
    /\ WF_vars(run_join)
    /\ WF_vars(child_progress)

SpecLive == Init /\ [][NextLive]_vars /\ Fairness

----------------------------------------------------------------------------
(* glob::Pattern, as filter_nodes uses it (default MatchOptions) *)

\* the characters of a selector string. It holds neither "]" nor "?" nor "/":
\* every "[" opens a range that is never closed.
SelChars == {"a", "b", "*", "@", ",", "["}

\* std::path::is_separator
is_separator(c) == c = "/"

AnySequence == [t |-> "AnySequence", c |-> ""]
AnyRecursiveSequence == [t |-> "AnyRecursiveSequence", c |-> ""]
Char(c) == [t |-> "Char", c |-> c]

PatternError == [ok |-> FALSE, tokens |-> <<>>]

\* the index of the first character at or after i that is no "*"
RECURSIVE SkipStars(_, _)
SkipStars(chars, i) ==
    IF i <= Len(chars) /\ chars[i] = "*" THEN SkipStars(chars, i + 1) ELSE i

\* Pattern::new from position i on, with the tokens made so far: "*" is
\* AnySequence; "**" must be a whole path component and is
\* AnyRecursiveSequence; three or more "*" are an error; "[" with no closing
\* "]" is an error; any other character of SelChars stands for itself.
RECURSIVE PatternFrom(_, _, _)
PatternFrom(chars, i, tokens) ==
    IF i > Len(chars) THEN [ok |-> TRUE, tokens |-> tokens]
    ELSE IF chars[i] = "*" THEN
        LET j == SkipStars(chars, i)
            count == j - i
            pushed == IF tokens # <<>> /\ tokens[Len(tokens)] = AnyRecursiveSequence
                      THEN tokens ELSE Append(tokens, AnyRecursiveSequence)
        IN IF count > 2 THEN PatternError
           ELSE IF count = 2 THEN
               IF i = 1 \/ is_separator(chars[i - 1])
               THEN IF j <= Len(chars) /\ is_separator(chars[j])
                    THEN PatternFrom(chars, j + 1, pushed)
                    ELSE IF j = Len(chars) + 1 THEN PatternFrom(chars, j, pushed)
                    ELSE PatternError
               ELSE PatternError
           ELSE PatternFrom(chars, j, Append(tokens, AnySequence))
    ELSE IF chars[i] = "[" THEN
        \* no "]" follows in a text over SelChars: ERROR_INVALID_RANGE
        PatternError
    ELSE PatternFrom(chars, i + 1, Append(tokens, Char(chars[i])))

\* GlobPattern::new
Pattern_new(pattern) == PatternFrom(pattern, 1, <<>>)

\* Pattern::matches_from: do the tokens from ti on match the text from si on
RECURSIVE matches_from(_, _, _, _)
matches_from(tokens, ti, text, si) ==
    IF ti > Len(tokens) THEN si > Len(text)
    ELSE IF tokens[ti] = AnySequence
    THEN \E k \in si..(Len(text) + 1) : matches_from(tokens, ti + 1, text, k)
    ELSE IF tokens[ti] = AnyRecursiveSequence
    THEN \E k \in si..(Len(text) + 1) :
             /\ k = si \/ k = Len(text) + 1 \/ is_separator(text[k - 1])
             /\ matches_from(tokens, ti + 1, text, k)
    ELSE /\ si <= Len(text)
         /\ text[si] = tokens[ti].c
         /\ matches_from(tokens, ti + 1, text, si + 1)

\* Pattern::matches
matches(pat, text) == matches_from(pat.tokens, 1, text, 1)

----------------------------------------------------------------------------
(* filter_nodes *)

\* the node names and the tags of the registries
NodeNames == {<<"a">>, <<"b">>, <<"a", "b">>}
Tags == {<<>>, <<"a">>}

\* HashMap<NodeName, NodeConfig>, a NodeConfig being its set of tags
Registries ==
    UNION {[names -> SUBSET Tags] : names \in SUBSET NodeNames}

\* the selector strings of at most MaxSel characters
Selectors == UNION {[1..n -> SelChars] : n \in 0..MaxSel}

\* str::split(","): the components, in order; the empty string has one, empty
RECURSIVE split_from(_, _)
split_from(s, cur) ==
    IF s = <<>> THEN <<cur>>
    ELSE IF Head(s) = "," THEN <<cur>> \o split_from(Tail(s), <<>>)
    ELSE split_from(Tail(s), Append(cur, Head(s)))

split(s) == split_from(s, <<>>)

\* mutant of NodeFilter: an empty pattern is refused
NodeFilter_refuse_empty(pattern) ==
    IF pattern # <<>> /\ Head(pattern) = "@"
    THEN [tag |-> TRUE, pat |-> IF Tail(pattern) = <<>> THEN PatternError
                                ELSE Pattern_new(Tail(pattern))]
    ELSE [tag |-> FALSE, pat |-> IF pattern = <<>> THEN PatternError
                                 ELSE Pattern_new(pattern)]

\* the closure of filter_nodes that classifies one component: TagFilter of the
\* rest after "@", else NameFilter of the whole component
NodeFilter(pattern) ==
    IF pattern # <<>> /\ Head(pattern) = "@"
    THEN [tag |-> TRUE, pat |-> Pattern_new(Tail(pattern))]
    ELSE [tag |-> FALSE, pat |-> Pattern_new(pattern)]

\* the filters of a selector string, in order
compile(sel) == [i \in 1..Len(split(sel)) |-> NodeFilter(split(sel)[i])]

\* mutant of node_selected: a node must satisfy every filter
RECURSIVE node_selected_all(_, _, _, _)
node_selected_all(filters, i, name, tags) ==
    IF i > Len(filters) THEN TRUE
    ELSE /\ IF filters[i].tag
            THEN \E tag \in tags : matches(filters[i].pat, tag)
            ELSE matches(filters[i].pat, name)
         /\ node_selected_all(filters, i + 1, name, tags)

\* mutant of node_selected: a tag filter is also tried on the node's name
RECURSIVE node_selected_tag_or_name(_, _, _, _)
node_selected_tag_or_name(filters, i, name, tags) ==
    IF i > Len(filters) THEN FALSE
    ELSE IF filters[i].tag /\ \E tag \in tags \cup {name} : matches(filters[i].pat, tag) THEN TRUE
    ELSE IF ~filters[i].tag /\ matches(filters[i].pat, name) THEN TRUE
    ELSE node_selected_tag_or_name(filters, i + 1, name, tags)

\* the closure of filter_map: the filters are tried in order from the i-th,
\* the first that matches (a tag filter on some tag, a name filter on the
\* name) selects the node
RECURSIVE node_selected(_, _, _, _)
node_selected(filters, i, name, tags) ==
    IF i > Len(filters) THEN FALSE
    ELSE IF filters[i].tag /\ \E tag \in tags : matches(filters[i].pat, tag) THEN TRUE
    ELSE IF ~filters[i].tag /\ matches(filters[i].pat, name) THEN TRUE
    ELSE node_selected(filters, i + 1, name, tags)

\* the nodes, in iteration order, that the i-th filter alone selects
RECURSIVE selected_by(_, _, _, _)
selected_by(registry, filters, i, order) ==
    IF order = <<>> THEN <<>>
    ELSE (IF node_selected(<<filters[i]>>, 1, Head(order), registry[Head(order)])
          THEN <<Head(order)>> ELSE <<>>)
         \o selected_by(registry, filters, i, Tail(order))

\* mutant of filter_map: the filters are the outer loop, each pushes the
\* nodes it selects
RECURSIVE filter_map_per_filter(_, _, _)
filter_map_per_filter(registry, filters, order) ==
    IF filters = <<>> THEN <<>>
    ELSE selected_by(registry, filters, 1, order)
         \o filter_map_per_filter(registry, Tail(filters), order)

\* filter_map over the map's entries in iteration order
RECURSIVE filter_map(_, _, _)
filter_map(registry, filters, order) ==
    IF order = <<>> THEN <<>>
    ELSE (IF node_selected(filters, 1, Head(order), registry[Head(order)])
          THEN <<Head(order)>> ELSE <<>>)
         \o filter_map(registry, filters, Tail(order))

\* the orders in which a HashMap can iterate over its keys
Orders(registry) ==
    {o \in [1..Cardinality(DOMAIN registry) -> DOMAIN registry] :
        \A i, j \in DOMAIN o : i # j => o[i] # o[j]}

\* one node under lazily compiled filters: "panic" at a filter that does not
\* compile, "sel" at the first that matches, "no" when none does
RECURSIVE lazy_node(_, _, _, _)
lazy_node(filters, i, name, tags) ==
    IF i > Len(filters) THEN "no"
    ELSE IF ~filters[i].pat.ok THEN "panic"
    ELSE IF filters[i].tag /\ \E tag \in tags : matches(filters[i].pat, tag) THEN "sel"
    ELSE IF ~filters[i].tag /\ matches(filters[i].pat, name) THEN "sel"
    ELSE lazy_node(filters, i + 1, name, tags)

RECURSIVE lazy_walk(_, _, _, _, _)
lazy_walk(registry, filters, order, list, tested) ==
    IF order = <<>> THEN [kind |-> "ok", list |-> list, tested |-> tested]
    ELSE LET n == Head(order)
             r == lazy_node(filters, 1, n, registry[n])
         IN IF r = "panic"
            THEN [kind |-> "panic", list |-> <<>>,
                  tested |-> IF filters[1].pat.ok THEN tested \cup {n} ELSE tested]
            ELSE lazy_walk(registry, filters, Tail(order),
                           IF r = "sel" THEN Append(list, n) ELSE list, tested \cup {n})

\* mutant of filter_nodes: each filter is compiled when a node first reaches it
filter_nodes_lazy(registry, sel, order) ==
    lazy_walk(registry, compile(sel), order, <<>>, {})

\* filter_nodes(nodes, filter), the map iterating in `order`: a pattern that
\* does not compile panics (unwrap) while the filters are collected, before
\* the closure of filter_map runs on any node
filter_nodes(registry, sel, order) ==
    LET filters == compile(sel) IN
    IF \E i \in 1..Len(filters) : ~filters[i].pat.ok
    THEN [kind |-> "panic", list |-> <<>>, tested |-> {}]
    ELSE IF Len(filters) > 0
    THEN [kind |-> "ok", list |-> filter_map(registry, filters, order),
          tested |-> DOMAIN registry]
    ELSE [kind |-> "ok", list |-> order, tested |-> {}]

InitFilter ==
    /\ new
    /\ HiveIdle
    /\ nodes \in Registries
    /\ filter \in Selectors
    /\ fpc = "call"
    /\ fout = [kind |-> "none", list |-> <<>>]
    /\ ftested = {}

\* one call of filter_nodes
call_filter_nodes ==
    /\ fpc = "call"
    /\ \E order \in Orders(nodes) :
           LET r == filter_nodes(nodes, filter, order) IN
           /\ fout' = [kind |-> r.kind, list |-> r.list]
           /\ ftested' = r.tested
    /\ fpc' = "done"
    /\ UNCHANGED <<nodes, filter>>
    /\ UNCHANGED engineVars
    /\ UNCHANGED hiveVars

NextFilter == call_filter_nodes

SpecFilter == InitFilter /\ [][NextFilter]_vars

----------------------------------------------------------------------------
(* hive_from_args *)

\* the characters of a --config argument
PathChars == {"/", ":", "a"}
Args == UNION {[1..n -> PathChars] : n \in 0..MaxArg}

\* what a directory holds: whether flake.nix and hive.nix are files in it
DirContents == [flake : BOOLEAN, hive : BOOLEAN]
\* the directories from the root (0) down to the current working directory
FileSystems == UNION {[0..d -> DirContents] : d \in 0..MaxDepth}
NoFiles == [d \in {0} |-> [flake |-> FALSE, hive |-> FALSE]]

\* the calls of hive_from_args: without --config (occurrences_of is 0) in any
\* file system, current_dir() succeeding or not; with --config, the
\* normalized path existing or not. `trace` is is_present("show-trace"),
\* `prior` the show_trace of the Hive as Hive::new constructs it.
HiveCalls ==
    [explicit : {FALSE}, config : {<<>>}, trace : BOOLEAN, cwd_ok : BOOLEAN,
     fs : FileSystems, exists : {FALSE}, prior : BOOLEAN]
    \cup
    [explicit : {TRUE}, config : Args, trace : BOOLEAN, cwd_ok : {TRUE},
     fs : {NoFiles}, exists : BOOLEAN, prior : BOOLEAN]

\* the current working directory
cwd == Cardinality(DOMAIN hin.fs) - 1

\* mutant of parent: the parent of the root is the root
parent_of_root_is_root(dir) == IF dir > 0 THEN Some(dir - 1) ELSE Some(0)

\* Path::parent: the root has none
parent(dir) == IF dir > 0 THEN Some(dir - 1) ELSE None

\* mutant of found_in: hive.nix is looked for first
found_in_legacy_first(dir) ==
    IF hin.fs[dir].hive THEN Some(<<dir, "hive.nix">>)
    ELSE IF hin.fs[dir].flake THEN Some(<<dir, "flake.nix">>)
    ELSE None

\* one look into a directory: flake.nix if it is a file there, else hive.nix
\* if it is, else nothing
found_in(dir) ==
    IF hin.fs[dir].flake THEN Some(<<dir, "flake.nix">>)
    ELSE IF hin.fs[dir].hive THEN Some(<<dir, "hive.nix">>)
    ELSE None

\* canonicalize_cli_path
canonicalize_cli_path(path) ==
    IF ~(path # <<>> /\ path[1] = "/") THEN <<".", "/">> \o path ELSE path

\* str::contains(":")
contains_colon(path) == \E i \in 1..Len(path) : path[i] = ":"

\* mutant of is_flake_uri: either condition is enough
is_flake_uri_either(exists, path) == ~exists \/ contains_colon(path)

\* the test that makes the argument a flake URI
is_flake_uri(exists, path) == ~exists /\ contains_colon(path)

\* Hive::new: the handle, with the show_trace it is constructed with
Hive_new(via, path, file) ==
    [kind |-> "Ok", via |-> via, path |-> path, file |-> file, trace |-> hin.prior]

\* mutant of set_show_trace: hive.set_show_trace(args.is_present("show-trace"))
set_show_trace_overwrite(hive, present) == [hive EXCEPT !.trace = present]

\* `if args.is_present("show-trace") { hive.set_show_trace(true); }`
set_show_trace(hive, present) ==
    IF present THEN [hive EXCEPT !.trace = TRUE] ELSE hive

\* a failure of a collaborator (Flake::from_uri, HivePath::from_path,
\* Hive::new), returned by `?`
HiveErr(what, via, path, file) ==
    [kind |-> "Err:" \o what, via |-> via, path |-> path, file |-> file, trace |-> FALSE]

\* the panic of file_path.unwrap()
HivePanic == [kind |-> "panic", via |-> "none", path |-> <<>>, file |-> None, trace |-> FALSE]

InitHive ==
    /\ new
    /\ FilterIdle
    /\ hin \in HiveCalls
    /\ hpc = "start"
    /\ hcur = 0
    /\ checked = <<>>
    /\ file_path = None
    /\ fpath = <<>>
    /\ hout = NoHive

\* hive_from_args up to the loop, or through the explicit branch. Without
\* --config: current_dir()? fails, or `cur` is the working directory and the
\* loop starts. With --config: the path is normalized; when it does not exist
\* and the argument holds a ":", the argument is resolved as a flake URI and
\* the function returns; otherwise the normalized path goes on to be loaded.
enter(ok) ==
    /\ hpc = "start"
    /\ IF ~hin.explicit
       THEN IF hin.cwd_ok
            THEN /\ hcur' = cwd
                 /\ hpc' = "search"
                 /\ UNCHANGED <<fpath, hout>>
            ELSE /\ hout' = HiveErr("io", "none", <<>>, None)
                 /\ hpc' = "done"
                 /\ UNCHANGED <<hcur, fpath>>
       ELSE /\ fpath' = canonicalize_cli_path(hin.config)
            /\ UNCHANGED hcur
            /\ IF is_flake_uri(hin.exists, hin.config)
               THEN /\ hout' = IF ok
                               THEN set_show_trace(Hive_new("uri", hin.config, None), hin.trace)
                               ELSE HiveErr("flake", "uri", hin.config, None)
                    /\ hpc' = "done"
               ELSE /\ hpc' = "load"
                    /\ UNCHANGED hout
    /\ UNCHANGED <<hin, checked, file_path>>
    /\ UNCHANGED engineVars
    /\ UNCHANGED filterVars

\* one iteration of the loop: look into `cur`; a file found ends the loop,
\* otherwise `cur` becomes its parent, and the loop ends at the root
search ==
    /\ hpc = "search"
    /\ checked' = Append(checked, hcur)
    /\ IF found_in(hcur) # None
       THEN /\ file_path' = found_in(hcur)
            /\ hpc' = "load"
            /\ UNCHANGED hcur
       ELSE /\ UNCHANGED file_path
            /\ IF parent(hcur) # None
               THEN /\ hcur' = parent(hcur)[1]
                    /\ UNCHANGED hpc
               ELSE /\ hpc' = "load"
                    /\ UNCHANGED hcur
    /\ UNCHANGED <<hin, fpath, hout>>
    /\ UNCHANGED engineVars
    /\ UNCHANGED filterVars

\* after the match: without --config, file_path.unwrap() panics when nothing
\* was found (an error is logged first); then HivePath::from_path and
\* Hive::new, either of which may fail, and the trace flag.
load(ok) ==
    /\ hpc = "load"
    /\ hout' = IF ~hin.explicit /\ file_path = None THEN HivePanic
               ELSE LET path == IF hin.explicit THEN fpath ELSE <<>>
                        file == IF hin.explicit THEN None ELSE file_path
                    IN IF ok THEN set_show_trace(Hive_new("path", path, file), hin.trace)
                       ELSE HiveErr("load", "path", path, file)
    /\ hpc' = "done"
    /\ UNCHANGED <<hin, hcur, checked, file_path, fpath>>
    /\ UNCHANGED engineVars
    /\ UNCHANGED filterVars

NextHive ==
    \/ \E ok \in BOOLEAN : enter(ok)
    \/ search
    \/ \E ok \in BOOLEAN : load(ok)

\* hive_from_args runs on: a step that can be taken is taken
SpecHive == InitHive /\ [][NextHive]_vars /\ WF_vars(NextHive)

----------------------------------------------------------------------------
(* What the child wrote, as lines *)

\* the lines of a text, each without its line feed; a last line may lack one
RECURSIVE LinesFrom(_, _)
LinesFrom(w, cur) ==
    IF w = <<>> THEN (IF cur = <<>> THEN <<>> ELSE <<cur>>)
    ELSE IF Head(w) = NL THEN <<cur>> \o LinesFrom(Tail(w), <<>>)
    ELSE LinesFrom(Tail(w), Append(cur, Head(w)))

LinesOf(w) == LinesFrom(w, <<>>)

\* a line without its trailing whitespace: up to its last non-blank character
Stripped(l) ==
    LET keep == {i \in 1..Len(l) : ~IsWhitespace(l[i])}
        n == IF keep = {} THEN 0 ELSE CHOOSE i \in keep : \A j \in keep : j <= i
    IN SubSeq(l, 1, n)

StrippedLines(w) == [i \in 1..Len(LinesOf(w)) |-> Stripped(LinesOf(w)[i])]

\* every line followed by one line feed
RECURSIVE Joined(_)
Joined(ls) == IF ls = <<>> THEN <<>> ELSE Head(ls) \o <<NL>> \o Joined(Tail(ls))

\* the text with only the terminators normalised
ExactLog(w) == Joined(LinesOf(w))
\* the text with the trailing whitespace of every line dropped
TrimmedLog(w) == Joined(StrippedLines(w))

\* the lines the sink received from one stream, in the order it received them
RECURSIVE SinkOf(_, _)
SinkOf(sk, s) ==
    IF sk = <<>> THEN <<>>
    ELSE IF Head(sk)[1] = s THEN <<Head(sk)[2]>> \o SinkOf(Tail(sk), s)
    ELSE SinkOf(Tail(sk), s)

IsPrefix(a, b) == Len(a) <= Len(b) /\ a = SubSeq(b, 1, Len(a))

\* a stream has reached end-of-data and capture_stream has seen it
AtEof(s) == drained[s] /\ closed[s] /\ pipe[s] = <<>> /\ line[s] = <<>>

----------------------------------------------------------------------------
(* Claims about CommandExecution *)

\* C1: run() is a barrier: whenever run() has returned from a spawned
\* command, stdout and stderr have both reached end-of-data (nothing is left
\* in a pipe or in a line being read) and the process has exited and been
\* waited on; an early exit of the process does not let run() return.
C1_Barrier ==
    (pc = "returned" /\ child # "none") =>
        /\ \A s \in Streams : AtEof(s)
        /\ child = "exited"
        /\ waited # None

\* C1 witness: the process has exited and its status is collected while one
\* stream still holds undrained data and the other is not at end-of-data;
\* run() has not returned.
C1_Witness ==
    /\ pc = "running"
    /\ waited # None
    /\ pipe["out"] # <<>>
    /\ ~drained["err"]
    /\ result = Pending

\* C2: when the process was spawned and waited on successfully, the result is
\* Ok exactly when the process exited with code 0 (no signal), and otherwise
\* it is the failure that carries the exit status of the process.
C2_ResultMapping ==
    (pc = "returned" /\ waited # None /\ waited[1].ok) =>
        /\ result = Ok <=> status = Some(Exited(0))
        /\ status # Some(Exited(0)) =>
               (result.kind = "ExitError" /\ result.status = status)

\* C2 witness: run() returned the failure that carries a death by signal.
C2_Witness ==
    /\ pc = "returned"
    /\ result.kind = "ExitError"
    /\ result.status = Some(Signaled(9))

\* C3: when run() returns an exit failure, get_logs() already yields both
\* buffers, each holding every line the child wrote on its stream.
C3_FailureLogs ==
    (pc = "returned" /\ result.kind = "ExitError") =>
        /\ get_logs = <<Some(TrimmedLog(written["out"])), Some(TrimmedLog(written["err"]))>>
        /\ \A s \in Streams : AtEof(s)

\* C3 witness: an exit failure was returned by a child that wrote on both streams.
C3_Witness ==
    /\ pc = "returned"
    /\ result = ExitError(Exited(1))
    /\ written["out"] = <<"a", NL>>
    /\ written["err"] = <<NL, "a">>
    /\ stderr = Some(<<NL, "a", NL>>)

C5_ExactLogs ==
    (pc = "returned" /\ result = Ok) =>
        get_logs = <<Some(ExactLog(written["out"])), Some(ExactLog(written["err"]))>>

\* C5 amended: after a run that exits with status 0 each buffer is what the
\* process wrote, every line with all its trailing whitespace stripped (the
\* terminator included) and followed by one line feed, in order.
C5_TrimmedLogs ==
    (pc = "returned" /\ result = Ok) =>
        get_logs = <<Some(TrimmedLog(written["out"])), Some(TrimmedLog(written["err"]))>>

\* C5 witness: status 0, a last line of stdout that ends in a blank and has
\* no terminator, and a blank line on stderr.
C5_Witness ==
    /\ pc = "returned"
    /\ result = Ok
    /\ written["out"] = <<"a", " ">>
    /\ stdout = Some(<<"a", NL>>)
    /\ written["err"] = <<" ", NL>>
    /\ stderr = Some(<<NL>>)

\* C6: when the process cannot be spawned, run() has returned at once with an
\* io failure that is no exit failure and carries no exit status; no drain
\* was started, no line reached the sink, nothing was waited on.
C6_SpawnFailure ==
    (pc # "new" /\ child = "none") =>
        /\ pc = "returned"
        /\ result = IoError("spawn")
        /\ result.kind # "ExitError"
        /\ result.status = None
        /\ sink = <<>>
        /\ \A s \in Streams : ~drained[s] /\ log[s] = <<>> /\ line[s] = <<>>
        /\ waited = None

\* C6 witness: a spawn failure on a repeated run.
C6_Witness ==
    /\ runs = 2
    /\ pc = "returned"
    /\ child = "none"
    /\ result = IoError("spawn")

\* C7: get_logs() is (None, None) exactly before the first run(); from the
\* first invocation on both buffers are present, and after run() returned
\* (success, exit failure, wait failure, spawn failure, repeated run) they
\* hold the logs of that last invocation only.
C7_Logs ==
    /\ get_logs = <<None, None>> <=> runs = 0
    /\ runs > 0 => (stdout # None /\ stderr # None)
    /\ pc = "returned" =>
           get_logs = <<Some(TrimmedLog(written["out"])), Some(TrimmedLog(written["err"]))>>

\* C7 witness: a repeated run has returned with logs on both streams.
C7_Witness ==
    /\ runs = 2
    /\ pc = "returned"
    /\ stdout = Some(<<"a", NL>>)
    /\ stderr = Some(<<NL, NL>>)

----------------------------------------------------------------------------
(* Claims about filter_nodes *)

\* the components of a selector string: the stretches between its commas
IsComma(sel, k) == k \in 1..Len(sel) /\ sel[k] = ","
Components(sel) ==
    {SubSeq(sel, i, j) : <<i, j>> \in
        {<<i, j>> \in (1..(Len(sel) + 1)) \X (0..Len(sel)) :
            /\ i <= j + 1
            /\ i = 1 \/ IsComma(sel, i - 1)
            /\ j = Len(sel) \/ IsComma(sel, j + 1)
            /\ \A k \in i..j : ~IsComma(sel, k)}}

\* a component matches a node: "@P" when P matches one of the node's tags, a
\* bare P when P matches the node's name
ComponentMatches(c, name) ==
    IF c # <<>> /\ c[1] = "@"
    THEN \E tag \in nodes[name] : matches(Pattern_new(Tail(c)), tag)
    ELSE matches(Pattern_new(c), name)

\* the names in the returned list
Returned == {fout.list[i] : i \in 1..Len(fout.list)}

\* C8: filters combine with OR: when filter_nodes returns, a node is in the
\* result exactly when at least one component of the selector matches it.
C8_LogicalOr ==
    (fpc = "done" /\ fout.kind = "ok") =>
        Returned = {n \in DOMAIN nodes : \E c \in Components(filter) : ComponentMatches(c, n)}

\* C8 witness: "a,b" against the registry {a, b, ab} returned exactly {a, b}.
C8_Witness ==
    /\ fpc = "done"
    /\ filter = <<"a", ",", "b">>
    /\ DOMAIN nodes = NodeNames
    /\ fout.kind = "ok"
    /\ Returned = {<<"a">>, <<"b">>}

\* C9: the empty selector returns every node name of the registry, as the
\* selector "*" does.
C9_EmptySelectsAll ==
    (fpc = "done" /\ filter \in {<<>>, <<"*">>}) =>
        (fout.kind = "ok" /\ Returned = DOMAIN nodes)

\* an empty component, or a tag component with nothing after the "@", in a
\* selector that is not empty as a whole
HasEmptyComponent(sel) ==
    sel # <<>> /\ (<<>> \in Components(sel) \/ <<"@">> \in Components(sel))

\* C10 as stated: a selector with an empty component, or with a tag component
\* of empty remainder, is rejected: filter_nodes fails.
C10_EmptyComponentRejected ==
    (fpc = "done" /\ HasEmptyComponent(filter)) => fout.kind = "panic"

\* C10 amended: such a selector is not rejected for that. filter_nodes fails
\* exactly when some component is an invalid glob pattern; otherwise it
\* returns the nodes the other components select, the empty name component
\* selecting only a node of empty name and "@" only nodes with an empty tag.
C10_EmptyComponentAccepted ==
    (fpc = "done" /\ HasEmptyComponent(filter)) =>
        /\ fout.kind = "panic" <=>
               \E c \in Components(filter) :
                   ~Pattern_new(IF c # <<>> /\ c[1] = "@" THEN Tail(c) ELSE c).ok
        /\ fout.kind = "ok" =>
               Returned = {n \in DOMAIN nodes :
                              \/ \E c \in Components(filter) \ {<<>>, <<"@">>} :
                                     ComponentMatches(c, n)
                              \/ <<>> \in Components(filter) /\ n = <<>>
                              \/ <<"@">> \in Components(filter) /\ <<>> \in nodes[n]}

\* C10 witness: "a,," returned the node a and not the node b.
C10_Witness ==
    /\ fpc = "done"
    /\ filter = <<"a", ",", ",">>
    /\ DOMAIN nodes = {<<"a">>, <<"b">>}
    /\ fout = [kind |-> "ok", list |-> << <<"a">> >>]

\* the glob of a component: what follows "@", or the whole component
GlobOf(c) == IF c # <<>> /\ c[1] = "@" THEN Tail(c) ELSE c

\* some component of the selector is an invalid glob pattern
HasInvalidGlob(sel) == \E c \in Components(sel) : ~Pattern_new(GlobOf(c)).ok

\* C11: compilation is all-or-nothing and precedes matching: when any
\* component of the selector is an invalid glob pattern, filter_nodes fails,
\* returns no node list, and no node was tested against any filter, the valid
\* components before the invalid one included.
C11_AllOrNothing ==
    (fpc = "done" /\ HasInvalidGlob(filter)) =>
        /\ fout.kind = "panic"
        /\ fout.list = <<>>
        /\ ftested = {}

\* C11 witness: "a,[" against a registry that holds the node a failed, the
\* valid component "a" selecting nothing.
C11_Witness ==
    /\ fpc = "done"
    /\ filter = <<"a", ",", "[">>
    /\ <<"a">> \in DOMAIN nodes
    /\ fout.kind = "panic"
    /\ ftested = {}

\* C12: a selector that is the single component "@P" returns exactly the
\* nodes that have a tag matching P, whatever their names; a selector that is
\* the single bare component P returns exactly the nodes whose name matches
\* P, whatever their tags.
C12_TagOrName ==
    (fpc = "done" /\ fout.kind = "ok" /\ \A k \in 1..Len(filter) : filter[k] # ",") =>
        IF filter # <<>> /\ filter[1] = "@"
        THEN Returned = {n \in DOMAIN nodes :
                            \E tag \in nodes[n] : matches(Pattern_new(Tail(filter)), tag)}
        ELSE Returned = {n \in DOMAIN nodes : matches(Pattern_new(filter), n)}

\* C12 witness: "@a" returned the node b, which carries the tags "" and "a",
\* and not the node a, which carries only the tag "".
C12_Witness ==
    /\ fpc = "done"
    /\ filter = <<"@", "a">>
    /\ DOMAIN nodes = {<<"a">>, <<"b">>}
    /\ nodes[<<"b">>] = {<<>>, <<"a">>}
    /\ nodes[<<"a">>] = {<<>>}
    /\ fout = [kind |-> "ok", list |-> << <<"b">> >>]

\* C13: the returned list holds each node name at most once and only keys of
\* the registry.
C13_NoDuplicates ==
    (fpc = "done" /\ fout.kind = "ok") =>
        /\ \A i, j \in 1..Len(fout.list) : i # j => fout.list[i] # fout.list[j]
        /\ Returned \subseteq DOMAIN nodes

\* C13 witness: the node a matches both filters of "a,*" and is returned once.
C13_Witness ==
    /\ fpc = "done"
    /\ filter = <<"a", ",", "*">>
    /\ DOMAIN nodes = {<<"a">>}
    /\ nodes[<<"a">>] = {<<>>, <<"a">>}
    /\ fout = [kind |-> "ok", list |-> << <<"a">> >>]

----------------------------------------------------------------------------
(* Claims about hive_from_args *)

\* the directories on the way up from the working directory that hold
\* flake.nix or hive.nix
Holding == {d \in DOMAIN hin.fs : hin.fs[d].flake \/ hin.fs[d].hive}
\* the nearest of them: the deepest
Nearest == CHOOSE d \in Holding : \A e \in Holding : e <= d

\* the search has been made: --config was not given and current_dir() succeeded
Searched == hpc \in {"load", "done"} /\ ~hin.explicit /\ hin.cwd_ok

C15_NotFoundReturned ==
    (hpc = "done" /\ ~hin.explicit /\ hin.cwd_ok /\ Holding = {}) =>
        hout.kind = "Err:notfound"

\* the --config argument as the claim normalizes it
Normalized(arg) == IF arg # <<>> /\ arg[1] = "/" THEN arg ELSE <<".", "/">> \o arg

\* C16: with --config no directory is searched, and the argument is resolved
\* as a flake URI exactly when the normalized path does not exist and the raw
\* argument holds a ":"; in every other case the normalized path (a relative
\* argument prefixed with "./", an absolute one unchanged) is loaded as a file
\* path.
C16_ExplicitConfig ==
    (hpc = "done" /\ hin.explicit) =>
        /\ checked = <<>>
        /\ file_path = None
        /\ hout.via = "uri" <=> (~hin.exists /\ \E i \in 1..Len(hin.config) : hin.config[i] = ":")
        /\ hout.via = "uri" => hout.path = hin.config
        /\ hout.via # "uri" => (hout.via = "path" /\ hout.path = Normalized(hin.config))

\* C16 witness: "a:" does not exist and was resolved as a flake URI.
C16_Witness ==
    /\ hpc = "done"
    /\ hin.explicit
    /\ hin.config = <<"a", ":">>
    /\ ~hin.exists
    /\ hout.kind = "Ok"
    /\ hout.via = "uri"

\* C17 as stated: on every successful path the trace flag of the handle is
\* the supplied flag, set or not, whatever the flag was before.
C17_TraceOverwritten ==
    (hpc = "done" /\ hout.kind = "Ok") => hout.trace = hin.trace

\* C17 amended: on every successful path the trace flag of the handle is true
\* when the flag is supplied; when it is not supplied the flag is left as
\* Hive::new constructed it.
C17_TraceSetWhenSupplied ==
    (hpc = "done" /\ hout.kind = "Ok") =>
        /\ hin.trace => hout.trace = TRUE
        /\ ~hin.trace => hout.trace = hin.prior

\* C17 witness: a flake URI resolved without the flag, the handle keeping the
\* trace flag it was constructed with.
C17_Witness ==
    /\ hpc = "done"
    /\ hout.kind = "Ok"
    /\ hout.via = "uri"
    /\ ~hin.trace
    /\ hin.prior
    /\ hout.trace

\* the directories looked into are the working directory, then its parent,
\* and so on upwards: each one once, every further one strictly nearer the root
Ascending == \A i \in 1..Len(checked) : checked[i] = cwd - (i - 1)

\* the loop was left at the first directory that holds a file, or at the root
LeftAtFirstOrRoot ==
    Searched =>
        /\ checked # <<>>
        /\ checked[Len(checked)] = IF Holding # {} THEN Nearest ELSE 0
        /\ file_path # None <=> Holding # {}

\* C19: the upward search terminates: the loop looks into each directory on
\* the way to the root at most once, strictly ascending at every iteration
\* that finds nothing, and is left at the first directory that holds
\* flake.nix or hive.nix, or at the root; once entered it is always left.
C19_SearchTerminates ==
    /\ [](~hin.explicit => Ascending)
    /\ []LeftAtFirstOrRoot
    /\ [][(hpc = "search" /\ hpc' = "search") => hcur' < hcur]_vars
    /\ (hpc = "search" ~> hpc # "search")

\* C19 witness: from two levels below the root, with no file anywhere, the
\* loop looked into the three directories and was left at the root.
C19_Witness ==
    /\ hpc = "load"
    /\ ~hin.explicit
    /\ checked = <<2, 1, 0>>
    /\ file_path = None

----------------------------------------------------------------------------
(* Liveness of CommandExecution::run *)

\* C18: with bounded pipes and a child that runs to completion whenever its
\* writes are not blocked, every run() that spawned its command returns, and
\* the child, however the pipes fill, always comes to its exit.
C18_RunResolves ==
    /\ (pc = "running") ~> (pc = "returned")
    /\ (child = "alive") ~> (child = "exited")

\* C18 witness: the child is held back by two full pipes with more to write
\* on both streams, and run() has read nothing yet.
C18_Witness ==
    /\ pc = "running"
    /\ child = "alive"
    /\ \A s \in Streams :
           /\ Len(pipe[s]) = PipeCap
           /\ Len(written[s]) < MaxLen
           /\ ~closed[s]
           /\ line[s] = <<>>
           /\ log[s] = <<>>

====
